---------------------------- MODULE Spec2Model ----------------------------
(***************************************************************************)
(* A model of the med_qrng COM binding (src/src/lib.rs) and of its         *)
(* demonstration entry point (src/src/main.rs).                            *)
(*                                                                         *)
(* The calling thread's COM state, the session value (MedQrng) and the     *)
(* outcome of the last operation are the state.  The vendor driver and the *)
(* OLE automation runtime are opaque: every value they hand back (status   *)
(* codes, the tagged VARIANT, array bounds, string contents) is an input   *)
(* drawn from a small set.  Each operation of the binding is one action;   *)
(* the sequence of runtime/driver calls it makes is recorded in the `log`  *)
(* field of its outcome, in call order.                                    *)
(***************************************************************************)
EXTENDS Integers, Sequences, FiniteSets, TLC

(***************************************************************************)
(* Constants of lib.rs                                                     *)
(***************************************************************************)
S_OK == 0
DISPATCH_PROPERTYGET == 2
DISPATCH_METHOD == 1
VT_I4 == 3
VT_R8 == 5
VT_R4 == 4
VT_BSTR == 8
VT_ARRAY == 8192
VT_UI1 == 17

\* Status codes the runtime and the driver hand back besides S_OK: S_FALSE
\* (a success code that is not S_OK) and a failure code (high bit set, so
\* negative as an i32 HRESULT; 0x80020006 is DISP_E_UNKNOWNNAME).
S_FALSE == S_OK + 1

\* Bounds of the model: caps on the thread's COM initialisation count and
\* on the number of automation objects created.
MaxApt == 2
MaxObjs == 1

(***************************************************************************)
(* 32-bit signed arithmetic as rustc compiles it.  Sums and differences    *)
(* are computed without ever leaving the i32 range.                        *)
(***************************************************************************)
MaxI32 == 32767 * 65536 + 65535
MinI32 == (-MaxI32) - 1

\* a failure HRESULT: 0x80020006 as an i32
E_FAILURE == MinI32 + 131078

\* a - b overflows the i32 range
SubOverflows(a, b) ==
    IF b >= 0 THEN a < MinI32 + b ELSE a > MaxI32 + b

\* a - b modulo 2^32, as a signed 32-bit value
SubWrap(a, b) ==
    IF ~SubOverflows(a, b) THEN a - b
    ELSE IF b >= 0 THEN ((a - MinI32) + (MaxI32 - b)) + 1
    ELSE ((a - MaxI32) + (MinI32 - b)) - 1

AddOverflows(a, b) ==
    IF b >= 0 THEN a > MaxI32 - b ELSE a < MinI32 - b

AddWrap(a, b) ==
    IF ~AddOverflows(a, b) THEN a + b
    ELSE IF b >= 0 THEN ((a - MaxI32) + (b + MinI32)) - 1
    ELSE ((a - MinI32) + (b + MaxI32)) + 1

\* bitwise AND of two u16 tags
RECURSIVE BitAnd(_, _)
BitAnd(a, b) ==
    IF a = 0 \/ b = 0 THEN 0
    ELSE (a % 2) * (b % 2) + 2 * BitAnd(a \div 2, b \div 2)

(***************************************************************************)
(* VARIANT: a tag and an 8-byte payload union.  The payload is kept as its *)
(* two 32-bit halves; each union accessor reads it its own way.            *)
(***************************************************************************)
Variant(vt, lo, hi) == [vt |-> vt, lo |-> lo, hi |-> hi]

\* mem::zeroed()
ZeroVariant == Variant(0, 0, 0)

\* n3.lVal(): the low 32 bits as an i32
lVal(var) == var.lo

\* n3.dblVal(): all 64 bits; an f64 is identified with its bit pattern
dblVal(var) == [lo |-> var.lo, hi |-> var.hi]

\* n3.parray() / n3.bstrVal(): all 64 bits as an address; 0 is null
IsNullPtr(var) == var.lo = 0 /\ var.hi = 0

(***************************************************************************)
(* The record of one runtime/driver call, and the outcome of an operation. *)
(***************************************************************************)
Call(api, name, kind, args, hr) ==
    [api |-> api, name |-> name, kind |-> kind, args |-> args, hr |-> hr]

Ok(val, log) == [val |-> val, log |-> log, status |-> "ok", err |-> ""]
Err(err, val, log) == [val |-> val, log |-> log, status |-> "err", err |-> err]
\* a panic that unwinds (destructors run), and one that does not (the
\* process is aborted on the spot)
Panic(val, log) == [val |-> val, log |-> log, status |-> "panic", err |-> "panic"]
Abort(val, log) == [val |-> val, log |-> log, status |-> "abort", err |-> "abort"]

(***************************************************************************)
(* The driver's and the runtime's answers to one accessor call:            *)
(*   hrNames, dispid   GetIDsOfNames' status and the identifier it yields  *)
(*   hrInvoke, var     Invoke's status and the VARIANT it writes           *)
(*   lb, ub, hrLB, hrUB, hrAccess                                          *)
(*                     what SafeArrayGetLBound / GetUBound / AccessData    *)
(*                     answer for the array var's payload points at        *)
(*   seed              the contents of that array's backing buffer         *)
(*   str               the UTF-16 code units of the BSTR var points at     *)
(***************************************************************************)
Reply(hrNames, hrInvoke, var, lb, ub, hrLB, hrUB, hrAccess, seed, str) ==
    [var |-> var, hrNames |-> hrNames, hrInvoke |-> hrInvoke,
     lb |-> lb, ub |-> ub, hrLB |-> hrLB, hrUB |-> hrUB, hrAccess |-> hrAccess,
     seed |-> seed, str |-> str, dispid |-> 7]

\* byte k (from 0) of the locked backing buffer
ByteAt(d, k) == (d.seed + 37 * k) % 256

\* f32 k (from 0) of the locked backing buffer read through a *mut f32:
\* four little-endian bytes; an f32 is identified with its bit pattern,
\* kept as its two 16-bit halves
F32At(d, k) ==
    [lo |-> ByteAt(d, 4 * k) + 256 * ByteAt(d, 4 * k + 1),
     hi |-> ByteAt(d, 4 * k + 2) + 256 * ByteAt(d, 4 * k + 3)]

\* element k (from 0) of the locked buffer read as ty
ElemAt(d, ty, k) == IF ty = "u8" THEN ByteAt(d, k) ELSE F32At(d, k)

(***************************************************************************)
(* Dynamic invoker                                                         *)
(***************************************************************************)
\* get_dispid: one GetIDsOfNames call; the identifier only on S_OK
get_dispid(name, d) ==
    LET log == << Call("GetIDsOfNames", name, 0, << >>, d.hrNames) >>
    IN  IF d.hrNames = S_OK
        THEN Ok(d.dispid, log)
        ELSE Err("GetIDsOfNames", 0, log)

\* invoke_with_kind calling Invoke a second time after a refusal (a fault
\* C9 must detect)
invoke_with_kind_retry(name, kind, args, d) ==
    LET r == get_dispid(name, d)
    IN  IF r.status # "ok" THEN Err(r.err, ZeroVariant, r.log)
        ELSE LET log == r.log \o << Call("Invoke", name, kind, args, d.hrInvoke) >>
             IN  IF d.hrInvoke = S_OK
                 THEN Ok(d.var, log)
                 ELSE LET log2 == log \o << Call("Invoke", name, kind, args, d.hrInvoke) >>
                      IN  Err("Invoke", ZeroVariant, log2)

\* the body shared by invoke_property and invoke_method_return: resolve the
\* name, fill DISPPARAMS from args, one Invoke call of the given kind
invoke_with_kind(name, kind, args, d) ==
    LET r == get_dispid(name, d)
    IN  IF r.status # "ok" THEN Err(r.err, ZeroVariant, r.log)
        ELSE LET log == r.log \o << Call("Invoke", name, kind, args, d.hrInvoke) >>
             IN  IF d.hrInvoke = S_OK
                 THEN Ok(d.var, log)
                 ELSE Err("Invoke", ZeroVariant, log)

invoke_property(name, args, d) ==
    invoke_with_kind(name, DISPATCH_PROPERTYGET, args, d)

invoke_method_return(name, args, d) ==
    invoke_with_kind(name, DISPATCH_METHOD, args, d)

\* the single-integer argument: one VARIANT tagged VT_I4 holding arg
I4Arg(arg) == Variant(VT_I4, arg, 0)

invoke_property_with_i32_arg(name, arg, d) ==
    invoke_property(name, << I4Arg(arg) >>, d)

\* invoke_method_with_i32_arg dispatching as a property-get (a fault C10
\* must detect)
invoke_method_with_i32_arg_as_property(name, arg, d) ==
    invoke_property(name, << I4Arg(arg) >>, d)

invoke_method_with_i32_arg(name, arg, d) ==
    invoke_method_return(name, << I4Arg(arg) >>, d)

\* invoke_method: the returned VARIANT is dropped
invoke_method(name, args, d) ==
    LET r == invoke_method_return(name, args, d)
    IN  IF r.status # "ok" THEN Err(r.err, 0, r.log) ELSE Ok(0, r.log)

(***************************************************************************)
(* Value codec                                                             *)
(***************************************************************************)
\* a read of the VARIANT's payload union through the named accessor
ReadPayload(field) == Call("read", field, 0, << >>, S_OK)

\* the tag tests of the two array conversions
IsByteArrayTag(vt) ==
    ~(BitAnd(vt, VT_ARRAY) # VT_ARRAY \/ BitAnd(vt, VT_UI1) # VT_UI1)

IsF32ArrayTag(vt) ==
    ~(BitAnd(vt, VT_ARRAY) # VT_ARRAY \/ BitAnd(vt, VT_R4) # VT_R4)

\* (ubound - lbound + 1) in i32: with overflow checks the build panics on
\* overflow, without them the value wraps
CountOverflows(lb, ub) ==
    SubOverflows(ub, lb) \/ AddOverflows(SubWrap(ub, lb), 1)

CountWrapped(lb, ub) == AddWrap(SubWrap(ub, lb), 1)

\* slice::from_raw_parts(data_ptr, count as usize) followed by to_vec() for
\* a negative count: the length exceeds isize::MAX, which from_raw_parts
\* does not allow.  A build that checks unsafe preconditions aborts there;
\* any other build goes on to to_vec(), whose allocation request exceeds
\* the allocator's limit and panics (capacity overflow).
OversizedSlice(b, log) ==
    IF b.ubChecks THEN Abort(<< >>, log) ELSE Panic(<< >>, log)

\* CopyOut without the SafeArrayUnaccessData call (a fault C4 must detect)
CopyOutNoUnlock(d, b, ty, log) ==
    IF b.overflowChecks /\ CountOverflows(d.lb, d.ub) THEN Panic(<< >>, log)
    ELSE LET count == CountWrapped(d.lb, d.ub)
             log2  == log \o << Call("SafeArrayAccessData", "", 0, << >>, d.hrAccess) >>
         IN  IF d.hrAccess # S_OK THEN Err("SafeArrayAccessData", << >>, log2)
             ELSE IF count < 0 THEN OversizedSlice(b, log2)
             ELSE Ok([i \in 1..count |-> ElemAt(d, ty, i - 1)], log2)

\* from the successful bounds queries on: the count, the lock, the copy of
\* count elements of type ty read from the locked buffer, the unlock.  In a
\* build b with overflow checks the count's arithmetic panics on overflow,
\* before the lock; otherwise it wraps.  A negative count never reaches the
\* unlock.
CopyOut(d, b, ty, log) ==
    IF b.overflowChecks /\ CountOverflows(d.lb, d.ub) THEN Panic(<< >>, log)
    ELSE LET count == CountWrapped(d.lb, d.ub)
             log2  == log \o << Call("SafeArrayAccessData", "", 0, << >>, d.hrAccess) >>
         IN  IF d.hrAccess # S_OK THEN Err("SafeArrayAccessData", << >>, log2)
             ELSE IF count < 0 THEN OversizedSlice(b, log2)
             ELSE Ok([i \in 1..count |-> ElemAt(d, ty, i - 1)],
                     log2 \o << Call("SafeArrayUnaccessData", "", 0, << >>, S_OK) >>)

variant_to_byte_array(var, d, b) ==
        IF ~IsByteArrayTag(var.vt) THEN Err("UnexpectedType", << >>, << >>)
        ELSE LET log1 == << ReadPayload("parray") >>
             IN  IF IsNullPtr(var) THEN Err("NullArray", << >>, log1)
                 ELSE LET log2 == log1 \o
                            << Call("SafeArrayGetLBound", "", 0, << >>, d.hrLB),
                               Call("SafeArrayGetUBound", "", 0, << >>, d.hrUB) >>
                      IN  IF d.hrLB # S_OK \/ d.hrUB # S_OK
                          THEN Err("SafeArrayGetBound", << >>, log2)
                          ELSE CopyOut(d, b, "u8", log2)

variant_to_f32_array(var, d, b) ==
        IF ~IsF32ArrayTag(var.vt) THEN Err("UnexpectedType", << >>, << >>)
        ELSE LET log1 == << ReadPayload("parray") >>
             IN  IF IsNullPtr(var) THEN Err("NullArray", << >>, log1)
                 ELSE LET log2 == log1 \o
                            << Call("SafeArrayGetLBound", "", 0, << >>, d.hrLB) >>
                          log3 == log2 \o
                            << Call("SafeArrayGetUBound", "", 0, << >>, d.hrUB) >>
                      IN  IF d.hrLB # S_OK THEN Err("SafeArrayGetBound", << >>, log2)
                          ELSE IF d.hrUB # S_OK THEN Err("SafeArrayGetBound", << >>, log3)
                          ELSE CopyOut(d, b, "f32", log3)

\* String::from_utf16_lossy: a surrogate pair is one scalar value, an
\* unpaired surrogate is replaced by U+FFFD (65533)
IsHighSurrogate(u) == u >= 55296 /\ u <= 56319
IsLowSurrogate(u) == u >= 56320 /\ u <= 57343

RECURSIVE from_utf16_lossy(_)
from_utf16_lossy(units) ==
    IF units = << >> THEN << >>
    ELSE LET u == Head(units)
             rest == Tail(units)
         IN  IF IsHighSurrogate(u) /\ rest # << >> /\ IsLowSurrogate(Head(rest))
             THEN << 65536 + (u - 55296) * 1024 + (Head(rest) - 56320) >>
                  \o from_utf16_lossy(Tail(rest))
             ELSE IF IsHighSurrogate(u) \/ IsLowSurrogate(u)
             THEN << 65533 >> \o from_utf16_lossy(rest)
             ELSE << u >> \o from_utf16_lossy(rest)

\* variant_to_bstr calling SysStringLen before the null test (a fault C7
\* must detect)
variant_to_bstr_asking_length(var, d) ==
    IF var.vt # VT_BSTR THEN Err("UnexpectedType", << >>, << >>)
    ELSE LET log1 == << ReadPayload("bstrVal") >>
             log2 == log1 \o << Call("SysStringLen", "", 0, << >>, S_OK) >>
         IN  IF IsNullPtr(var) THEN Ok(<< >>, log2)
             ELSE Ok(from_utf16_lossy(SubSeq(d.str, 1, Len(d.str))), log2)

variant_to_bstr(var, d) ==
    IF var.vt # VT_BSTR THEN Err("UnexpectedType", << >>, << >>)
    ELSE LET log1 == << ReadPayload("bstrVal") >>
         IN  IF IsNullPtr(var) THEN Ok(<< >>, log1)
             ELSE LET len == Len(d.str)
                      log2 == log1 \o << Call("SysStringLen", "", 0, << >>, S_OK) >>
                  IN  Ok(from_utf16_lossy(SubSeq(d.str, 1, len)), log2)

(***************************************************************************)
(* Public accessors: invoker, then codec on the VARIANT it returned.       *)
(* d is the driver's reply, b the build (which run-time checks it has).    *)
(***************************************************************************)
\* the codec's outcome c after the invocation r that produced its input
After(r, c) == [c EXCEPT !.log = r.log \o c.log]

\* rand_int32 reading lVal whatever the tag (a fault C3 must detect)
rand_int32_unchecked(d) ==
    LET r == invoke_property("RandInt32", << >>, d)
    IN  IF r.status # "ok" THEN Err(r.err, 0, r.log)
        ELSE Ok(lVal(r.val), r.log \o << ReadPayload("lVal") >>)

rand_int32(d) ==
    LET r == invoke_property("RandInt32", << >>, d)
    IN  IF r.status # "ok" THEN Err(r.err, 0, r.log)
        ELSE IF r.val.vt = VT_I4
             THEN Ok(lVal(r.val), r.log \o << ReadPayload("lVal") >>)
             ELSE Err("UnexpectedType", 0, r.log)

rand_uniform(d) ==
    LET r == invoke_property("RandUniform", << >>, d)
    IN  IF r.status # "ok" THEN Err(r.err, 0, r.log)
        ELSE IF r.val.vt = VT_R8
             THEN Ok(dblVal(r.val), r.log \o << ReadPayload("dblVal") >>)
             ELSE Err("UnexpectedType", 0, r.log)

rand_normal(d) ==
    LET r == invoke_property("RandNormal", << >>, d)
    IN  IF r.status # "ok" THEN Err(r.err, 0, r.log)
        ELSE IF r.val.vt = VT_R8
             THEN Ok(dblVal(r.val), r.log \o << ReadPayload("dblVal") >>)
             ELSE Err("UnexpectedType", 0, r.log)

rand_bytes(length, d, b) ==
    LET r == invoke_property_with_i32_arg("RandBytes", length, d)
    IN  IF r.status # "ok" THEN Err(r.err, << >>, r.log)
        ELSE After(r, variant_to_byte_array(r.val, d, b))

device_id(d) ==
    LET r == invoke_property("DeviceId", << >>, d)
    IN  IF r.status # "ok" THEN Err(r.err, << >>, r.log)
        ELSE After(r, variant_to_bstr(r.val, d))

runtime_info(d, b) ==
    LET r == invoke_property("RuntimeInfo", << >>, d)
    IN  IF r.status # "ok" THEN Err(r.err, << >>, r.log)
        ELSE After(r, variant_to_f32_array(r.val, d, b))

diagnostics(dx_code, d, b) ==
    LET r == invoke_method_with_i32_arg("Diagnostics", dx_code, d)
    IN  IF r.status # "ok" THEN Err(r.err, << >>, r.log)
        ELSE After(r, variant_to_byte_array(r.val, d, b))

clear(d) == invoke_method("Clear", << >>, d)

reset(d) == invoke_method("Reset", << >>, d)

(***************************************************************************)
(* Session manager.  The thread's COM state is apt, the number of          *)
(* CoInitializeEx calls not yet balanced by CoUninitialize, and objs, the  *)
(* number of references held on automation objects.                        *)
(***************************************************************************)
\* CoInitializeEx(NULL, COINIT_APARTMENTTHREADED) on a thread whose count is
\* apt: a failure leaves the count alone; otherwise the count goes up and the
\* status is S_OK for the first entry and S_FALSE for every further one.
CoInitializeEx(apt, initOk) ==
    IF ~initOk THEN [hr |-> E_FAILURE, apt |-> apt]
    ELSE [hr |-> IF apt = 0 THEN S_OK ELSE S_FALSE, apt |-> apt + 1]

CoUninitialize(apt) == IF apt > 0 THEN apt - 1 ELSE apt

\* MedQrng::new: the outcome, the thread's COM state after it, and whether
\* a session value was built
new(apt, objs, initOk, hrCreate) ==
    LET init == CoInitializeEx(apt, initOk)
        log1 == << Call("CoInitializeEx", "", 0, << >>, init.hr) >>
        log2 == log1 \o << Call("CoCreateInstance", "", 0, << >>, hrCreate) >>
        log3 == log2 \o << Call("CoUninitialize", "", 0, << >>, S_OK) >>
    IN  IF init.hr # S_OK
        THEN [apt |-> init.apt, objs |-> objs,
              res |-> Err("CoInitializeEx", 0, log1), built |-> FALSE]
        ELSE IF hrCreate # S_OK
        THEN [apt |-> CoUninitialize(init.apt), objs |-> objs,
              res |-> Err("CoCreateInstance", 0, log3), built |-> FALSE]
        ELSE [apt |-> init.apt, objs |-> objs + 1,
              res |-> Ok(0, log2), built |-> TRUE]

\* Drop for MedQrng: CoUninitialize and nothing else; the reference held
\* through p_disp is not given back
drop(apt, objs) ==
    [apt |-> CoUninitialize(apt), objs |-> objs,
     res |-> Ok(0, << Call("CoUninitialize", "", 0, << >>, S_OK) >>)]

(***************************************************************************)
(* What the driver and the runtime may answer                              *)
(***************************************************************************)
\* the answer fields an operation does not look at
Plain(hrNames, hrInvoke, var) ==
    Reply(hrNames, hrInvoke, var, 0, 0, S_OK, S_OK, S_OK, 0, << >>)

NoReply == Plain(S_OK, S_OK, ZeroVariant)

\* resolution or dispatch refused, with a failure code or with S_FALSE
FailReplies ==
    { Plain(h, S_OK, ZeroVariant) : h \in {S_FALSE, E_FAILURE} }
    \cup { Plain(S_OK, h, ZeroVariant) : h \in {S_FALSE, E_FAILURE} }

\* payload bit patterns: i32::MIN in the low half, and a pattern
\* with a non-zero high half (the f64 1.0 has high half 0x3FF00000)
Payloads == { <<MinI32, 0>>, <<5, 1072693248>> }

\* scalar tags: VT_EMPTY, the three scalar tags of lib.rs, and VT_UI1
ScalarTags == { 0, VT_I4, VT_R8, VT_R4, VT_UI1 }

ScalarReplies ==
    { Plain(S_OK, S_OK, Variant(t, p[1], p[2])) : t \in ScalarTags, p \in Payloads }

\* BSTR contents: empty, "Hi", a surrogate pair, a lone high surrogate, a
\* lone low surrogate followed by "A"
Strings ==
    { << >>, <<72, 105>>, <<55357, 56832>>, <<55296>>, <<56320, 65>> }

\* a non-null address
Addr == <<4096, 0>>

BstrReplies ==
    { Plain(S_OK, S_OK, Variant(VT_BSTR, 0, 0)) }
    \cup { Reply(S_OK, S_OK, Variant(VT_BSTR, Addr[1], Addr[2]),
                 0, 0, S_OK, S_OK, S_OK, 0, str) : str \in Strings }

\* array tags: bytes, f32, f64 (VT_R8), u32 (VT_UI4 = 19), i16 (VT_I2 = 2),
\* and bytes by reference (VT_BYREF = 0x4000)
ArrayTags ==
    { VT_ARRAY + VT_UI1, VT_ARRAY + VT_R4, VT_ARRAY + VT_R8, VT_ARRAY + 19,
      VT_ARRAY + 2, 16384 + VT_ARRAY + VT_UI1 }

\* the array tags answered with every array below to the byte-array
\* accessors, and to the float-array accessor
ByteArrayTags == { VT_ARRAY + VT_UI1, VT_ARRAY + 19 }
F32ArrayTags == { VT_ARRAY + VT_R4, VT_ARRAY + VT_R8 }

\* <<lower, upper>> bounds: ordinary arrays, the empty array, an upper
\* bound below the lower one, and extents beyond i32::MAX
BoundPairs ==
    { <<0, 9>>, <<1, 3>>, <<-2, 1>>, <<0, -1>>, <<5, 0>>,
      <<0, MaxI32>>, <<MinI32, MaxI32 - 1>>, <<MinI32, MaxI32>> }

\* <<hrLB, hrUB, hrAccess>> with one of the three calls refused
RefusedOnce ==
    { <<E_FAILURE, S_OK, S_OK>>, <<S_OK, S_FALSE, S_OK>>,
      <<S_OK, S_OK, E_FAILURE>> }

ArrayReplies(tags) ==
    { Plain(S_OK, S_OK, Variant(t, 0, 0)) : t \in tags }
    \cup { Reply(S_OK, S_OK, Variant(t, Addr[1], Addr[2]),
                 b[1], b[2], S_OK, S_OK, S_OK, 3, << >>) :
               t \in tags, b \in BoundPairs }
    \cup { Reply(S_OK, S_OK, Variant(t, Addr[1], Addr[2]),
                 0, 9, h[1], h[2], h[3], 3, << >>) :
               t \in tags, h \in RefusedOnce }

\* one reply of every tag, for the accessors that reject it by its tag
OneOfEach ==
    { Plain(S_OK, S_OK, Variant(t, Addr[1], Addr[2])) :
        t \in ScalarTags \cup ArrayTags \cup {VT_BSTR} }

RepliesToScalar == FailReplies \cup ScalarReplies \cup OneOfEach
RepliesToVoid == FailReplies \cup OneOfEach
RepliesToString == FailReplies \cup BstrReplies \cup OneOfEach
RepliesToByteArray == FailReplies \cup ArrayReplies(ByteArrayTags) \cup OneOfEach
RepliesToF32Array == FailReplies \cup ArrayReplies(F32ArrayTags) \cup OneOfEach

\* the integer arguments a caller passes
IntArgs == { 10, 21 }

(***************************************************************************)
(* State                                                                   *)
(***************************************************************************)
VARIABLES
    build,          \* the run-time checks compiled in
    aptCount,       \* the thread's unbalanced CoInitializeEx calls
    objRefs,        \* references held on automation objects
    live,           \* a MedQrng value exists
    op,             \* the last operation
    arg,            \* its integer argument, if it takes one
    reply,          \* what the driver answered to it
    res,            \* its outcome
    aptBefore,      \* aptCount when it began
    mainpc,         \* main.rs: the next statement of main
    called,         \* main.rs: the accessors main has called, in order
    uninits,        \* main.rs: CoUninitialize calls made since main began
    exitCode        \* main.rs: the process's exit code

vars == << build, aptCount, objRefs, live, op, arg, reply, res,
           aptBefore, mainpc, called, uninits, exitCode >>

mainVars == << mainpc, called, uninits, exitCode >>

\* a build panics on integer overflow or wraps (overflow-checks), and
\* aborts on a violated unsafe precondition or goes on (debug-assertions)
Builds == [ubChecks : BOOLEAN, overflowChecks : BOOLEAN]

Init ==
    /\ build \in Builds
    /\ aptCount = 0
    /\ objRefs = 0
    /\ live = FALSE
    /\ op = "none"
    /\ arg = 0
    /\ reply = NoReply
    /\ res = Ok(0, << >>)
    /\ aptBefore = 0
    /\ mainpc = "new"
    /\ called = << >>
    /\ uninits = 0
    /\ exitCode = 0

(***************************************************************************)
(* A caller of the library on one thread                                   *)
(***************************************************************************)
\* the process has not been aborted
Running == res.status # "abort"

\* an accessor needs &self: a session value in a running process
Callable == Running /\ live

\* an accessor call on the live session: the COM state is left alone
Accessor(name, a, d, r) ==
    /\ op' = name
    /\ arg' = a
    /\ reply' = d
    /\ res' = r
    /\ aptBefore' = aptCount
    /\ UNCHANGED << build, aptCount, objRefs, live, mainVars >>

New ==
    /\ Running
    /\ \E initOk \in BOOLEAN, hrCreate \in {S_OK, E_FAILURE} :
         LET n == new(aptCount, objRefs, initOk, hrCreate)
         IN  /\ n.apt <= MaxApt
             /\ n.objs <= MaxObjs
             /\ op' = "new"
             /\ arg' = 0
             /\ reply' = NoReply
             /\ res' = n.res
             /\ aptBefore' = aptCount
             /\ aptCount' = n.apt
             /\ objRefs' = n.objs
             /\ live' = (live \/ n.built)
    /\ UNCHANGED << build, mainVars >>

Drop ==
    /\ Running
    /\ live
    /\ LET n == drop(aptCount, objRefs)
       IN  /\ op' = "drop"
           /\ arg' = 0
           /\ reply' = NoReply
           /\ res' = n.res
           /\ aptBefore' = aptCount
           /\ aptCount' = n.apt
           /\ objRefs' = n.objs
           /\ live' = FALSE
    /\ UNCHANGED << build, mainVars >>

RandInt32 ==
    /\ Callable
    /\ \E d \in RepliesToScalar : Accessor("rand_int32", 0, d, rand_int32(d))

RandUniform ==
    /\ Callable
    /\ \E d \in RepliesToScalar : Accessor("rand_uniform", 0, d, rand_uniform(d))

RandNormal ==
    /\ Callable
    /\ \E d \in RepliesToScalar : Accessor("rand_normal", 0, d, rand_normal(d))

RandBytes ==
    /\ Callable
    /\ \E d \in RepliesToByteArray, n \in IntArgs :
          Accessor("rand_bytes", n, d, rand_bytes(n, d, build))

DeviceId ==
    /\ Callable
    /\ \E d \in RepliesToString : Accessor("device_id", 0, d, device_id(d))

RuntimeInfo ==
    /\ Callable
    /\ \E d \in RepliesToF32Array :
          Accessor("runtime_info", 0, d, runtime_info(d, build))

Diagnostics ==
    /\ Callable
    /\ \E d \in RepliesToByteArray, c \in IntArgs :
          Accessor("diagnostics", c, d, diagnostics(c, d, build))

Clear ==
    /\ Callable
    /\ \E d \in RepliesToVoid : Accessor("clear", 0, d, clear(d))

Reset ==
    /\ Callable
    /\ \E d \in RepliesToVoid : Accessor("reset", 0, d, reset(d))

Next ==
    \/ New
    \/ Drop
    \/ RandInt32
    \/ RandUniform
    \/ RandNormal
    \/ RandBytes
    \/ DeviceId
    \/ RuntimeInfo
    \/ Diagnostics
    \/ Clear
    \/ Reset

Spec == Init /\ [][Next]_vars

(***************************************************************************)
(* main.rs: one session, each accessor once, `?` after every call.  The    *)
(* session value is dropped when main's scope ends: at the final Ok(()),   *)
(* at the first `?` that returns an error, and while a panic unwinds.  An  *)
(* abort ends the process with no destructor run.                          *)
(***************************************************************************)
\* the accessors in the order main calls them
MainOrder ==
    << "rand_int32", "rand_uniform", "rand_normal", "rand_bytes", "device_id",
       "runtime_info", "diagnostics", "clear", "reset" >>

\* the number of calls of api in log
RECURSIVE CountCalls(_, _)
CountCalls(log, api) ==
    IF log = << >> THEN 0
    ELSE (IF Head(log).api = api THEN 1 ELSE 0) + CountCalls(Tail(log), api)

\* the process's exit code: 0 from Ok(()), 1 from a returned Err, 101 from
\* a panic, and the fail-fast status 0xC0000409 (as an i32) from an abort
ExitCodeOf(r) ==
    IF r.status = "ok" THEN 0
    ELSE IF r.status = "err" THEN 1
    ELSE IF r.status = "panic" THEN 101
    ELSE -1073740791

\* where main goes after a call whose outcome is r: on to the next
\* statement, or out of main
main_after(r, nextStage) ==
    IF r.status = "ok" THEN nextStage ELSE "exited"

MainNew ==
    /\ mainpc = "new"
    /\ \E initOk \in BOOLEAN, hrCreate \in {S_OK, E_FAILURE} :
         LET n == new(aptCount, objRefs, initOk, hrCreate)
         IN  /\ op' = "new"
             /\ arg' = 0
             /\ reply' = NoReply
             /\ res' = n.res
             /\ aptBefore' = aptCount
             /\ aptCount' = n.apt
             /\ objRefs' = n.objs
             /\ live' = n.built
             /\ uninits' = uninits + CountCalls(n.res.log, "CoUninitialize")
             /\ mainpc' = main_after(n.res, MainOrder[1])
             /\ exitCode' = ExitCodeOf(n.res)
    /\ UNCHANGED << build, called >>

\* the statement of main that calls accessor `name`; nextStage is the
\* statement after it ("exited" after the last one)
MainCall(name, nextStage, a, d, r) ==
    /\ called' = Append(called, name)
    /\ op' = name
    /\ arg' = a
    /\ reply' = d
    /\ res' = r
    /\ aptBefore' = aptCount
    /\ mainpc' = main_after(r, nextStage)
    /\ IF r.status = "abort"
       THEN /\ exitCode' = ExitCodeOf(r)
            /\ UNCHANGED << aptCount, objRefs, live, uninits >>
       ELSE IF main_after(r, nextStage) = "exited"
       THEN LET n == drop(aptCount, objRefs)
            IN  /\ aptCount' = n.apt
                /\ objRefs' = n.objs
                /\ live' = FALSE
                /\ uninits' = uninits + CountCalls(n.res.log, "CoUninitialize")
                /\ exitCode' = ExitCodeOf(r)
       ELSE UNCHANGED << aptCount, objRefs, live, uninits, exitCode >>
    /\ UNCHANGED build

MainRandInt32 ==
    /\ mainpc = "rand_int32"
    /\ \E d \in RepliesToScalar :
          MainCall("rand_int32", "rand_uniform", 0, d, rand_int32(d))

MainRandUniform ==
    /\ mainpc = "rand_uniform"
    /\ \E d \in RepliesToScalar :
          MainCall("rand_uniform", "rand_normal", 0, d, rand_uniform(d))

MainRandNormal ==
    /\ mainpc = "rand_normal"
    /\ \E d \in RepliesToScalar :
          MainCall("rand_normal", "rand_bytes", 0, d, rand_normal(d))

MainRandBytes ==
    /\ mainpc = "rand_bytes"
    /\ \E d \in RepliesToByteArray :
          MainCall("rand_bytes", "device_id", 10, d, rand_bytes(10, d, build))

MainDeviceId ==
    /\ mainpc = "device_id"
    /\ \E d \in RepliesToString :
          MainCall("device_id", "runtime_info", 0, d, device_id(d))

MainRuntimeInfo ==
    /\ mainpc = "runtime_info"
    /\ \E d \in RepliesToF32Array :
          MainCall("runtime_info", "diagnostics", 0, d, runtime_info(d, build))

MainDiagnostics ==
    /\ mainpc = "diagnostics"
    /\ \E d \in RepliesToByteArray :
          MainCall("diagnostics", "clear", 21, d, diagnostics(21, d, build))

MainClear ==
    /\ mainpc = "clear"
    /\ \E d \in RepliesToVoid : MainCall("clear", "reset", 0, d, clear(d))

MainReset ==
    /\ mainpc = "reset"
    /\ \E d \in RepliesToVoid : MainCall("reset", "exited", 0, d, reset(d))

MainNext ==
    \/ MainNew
    \/ MainRandInt32
    \/ MainRandUniform
    \/ MainRandNormal
    \/ MainRandBytes
    \/ MainDeviceId
    \/ MainRuntimeInfo
    \/ MainDiagnostics
    \/ MainClear
    \/ MainReset

SpecMain == Init /\ [][MainNext]_vars

(***************************************************************************)
(* Properties                                                              *)
(***************************************************************************)
ScalarOps == { "rand_int32", "rand_uniform", "rand_normal" }
ByteArrayOps == { "rand_bytes", "diagnostics" }
ArrayOps == ByteArrayOps \cup { "runtime_info" }
AccessorOps == ScalarOps \cup ArrayOps \cup { "device_id", "clear", "reset" }

\* the last operation was an accessor whose dispatch call returned S_OK
Dispatched == op \in AccessorOps /\ reply.hrNames = S_OK /\ reply.hrInvoke = S_OK

\* the last operation touched the array handle: read it, queried it, locked it
TouchedArray ==
    \E i \in 1..Len(res.log) :
        \/ res.log[i].api \in { "SafeArrayGetLBound", "SafeArrayGetUBound",
                                 "SafeArrayAccessData", "SafeArrayUnaccessData" }
        \/ res.log[i].api = "read" /\ res.log[i].name = "parray"

\* successful locks and unlocks of the last operation
Locks ==
    Cardinality({ i \in 1..Len(res.log) :
        res.log[i].api = "SafeArrayAccessData" /\ res.log[i].hr = S_OK })

Unlocks == CountCalls(res.log, "SafeArrayUnaccessData")

\* C1: whenever MedQrng::new returns an error, the thread's apartment-entry
\* count is what it was before the call.
C1_FailedNewLeavesCountUnchanged ==
    (op = "new" /\ res.status = "err") => aptCount = aptBefore

\* C2: an array conversion goes past its tag check only for the exact tag
\* (VT_ARRAY + VT_UI1 for bytes, VT_ARRAY + VT_R4 for floats); every other
\* tag gives the type-mismatch error before the array handle is touched.
C2_ExactArrayTagOrTypeMismatch ==
    (Dispatched /\ op \in ArrayOps) =>
        LET required == IF op \in ByteArrayOps
                        THEN VT_ARRAY + VT_UI1 ELSE VT_ARRAY + VT_R4
        IN  IF reply.var.vt = required
            THEN res.err # "UnexpectedType"
            ELSE res.status = "err" /\ res.err = "UnexpectedType" /\ ~TouchedArray

\* the tag each scalar or string accessor requires
RequiredTag(o) ==
    IF o = "rand_int32" THEN VT_I4
    ELSE IF o = "device_id" THEN VT_BSTR
    ELSE VT_R8

\* C3: a scalar or string accessor whose dispatch succeeded returns the
\* payload exactly when the returned tag is the required one (the low 32
\* bits for rand_int32, all 64 bits for rand_uniform and rand_normal, the
\* string for device_id), and otherwise returns the type-mismatch error
\* without reading the payload.
C3_ScalarTagDecidesOutcome ==
    (Dispatched /\ op \in ScalarOps \cup { "device_id" }) =>
        IF reply.var.vt = RequiredTag(op)
        THEN /\ res.status = "ok"
             /\ op = "rand_int32" => res.val = reply.var.lo
             /\ op \in { "rand_uniform", "rand_normal" } =>
                    res.val = [lo |-> reply.var.lo, hi |-> reply.var.hi]
             /\ (op = "device_id" /\ reply.var.lo # 0
                    /\ \A i \in 1..Len(reply.str) : reply.str[i] < 55296) =>
                    res.val = reply.str
        ELSE /\ res.status = "err"
             /\ res.err = "UnexpectedType"
             /\ CountCalls(res.log, "read") = 0

\* rand_int32 answered with a double-tagged value is the type-mismatch error
C3_Witness ==
    /\ op = "rand_int32"
    /\ Dispatched
    /\ reply.var.vt = VT_R8
    /\ res.err = "UnexpectedType"

\* C4: when an array conversion returns, with a value or with an error, its
\* successful locks and its unlocks balance, and no unlock comes without a
\* successful lock before it.
C4_LockBalancedOnReturn ==
    op \in ArrayOps =>
        /\ res.status \in { "ok", "err" } => Locks = Unlocks
        /\ Locks <= 1
        /\ \A i \in 1..Len(res.log) :
              res.log[i].api = "SafeArrayUnaccessData" =>
                \E j \in 1..(i - 1) :
                    res.log[j].api = "SafeArrayAccessData" /\ res.log[j].hr = S_OK

\* a byte-array conversion that locked, copied and unlocked
C4_Witness ==
    /\ op = "rand_bytes"
    /\ res.status = "ok"
    /\ Locks = 1
    /\ Unlocks = 1

\* n = ub - lb + 1 over the integers, for n within the i32 range
IsExtent(n, lb, ub) ==
    /\ ~SubOverflows(ub, lb)
    /\ ~AddOverflows(ub - lb, 1)
    /\ n = ub - lb + 1

\* C5: for every lower bound L and upper bound U >= L, a successful array
\* conversion returns exactly U - L + 1 elements, element i of the result
\* being element i of the locked buffer.
C5_LengthIsUpperMinusLowerPlusOne ==
    (op \in ArrayOps /\ res.status = "ok" /\ reply.ub >= reply.lb) =>
        /\ IsExtent(Len(res.val), reply.lb, reply.ub)
        /\ \A i \in 1..Len(res.val) :
              res.val[i] = IF op \in ByteArrayOps
                           THEN ByteAt(reply, i - 1) ELSE F32At(reply, i - 1)

\* C6: the apartment is entered for as long as the automation object handle
\* exists: the handle is acquired only after apartment entry succeeded, a
\* session exists only while the apartment is entered, and no reference on
\* the object is left once the session is gone.
C6_ApartmentEnteredWhileHandleExists ==
    /\ live => aptCount > 0
    /\ objRefs > 0 => live
    /\ \A i \in 1..Len(res.log) :
          res.log[i].api = "CoCreateInstance" =>
            \E j \in 1..(i - 1) :
                res.log[j].api = "CoInitializeEx" /\ res.log[j].hr = S_OK

\* C7: a wide-string-tagged value with a null string handle converts to
\* the empty string, with no error and without asking for the length.
C7_NullStringIsEmpty ==
    (op = "device_id" /\ Dispatched /\ reply.var.vt = VT_BSTR /\ IsNullPtr(reply.var)) =>
        /\ res.status = "ok"
        /\ res.val = << >>
        /\ CountCalls(res.log, "SysStringLen") = 0

C7_Witness ==
    /\ op = "device_id"
    /\ Dispatched
    /\ reply.var.vt = VT_BSTR
    /\ IsNullPtr(reply.var)
    /\ res.status = "ok"

\* s is an initial part of t
IsPrefix(s, t) == Len(s) <= Len(t) /\ s = SubSeq(t, 1, Len(s))

\* C8: main calls the accessors at most once each in the fixed order, with
\* rand_bytes(10) and diagnostics(0x15); the first error ends the run with a
\* non-zero exit code and no later accessor is called; a run ends with code
\* 0 only after all nine calls; and whenever open succeeded the apartment
\* has been left exactly once when the process ends.
C8_MainRunsInOrderAndStopsAtFirstError ==
    /\ IsPrefix(called, MainOrder)
    /\ op = "rand_bytes" => arg = 10
    /\ op = "diagnostics" => arg = 21
    /\ res.status # "ok" =>
          /\ mainpc = "exited"
          /\ exitCode # 0
          /\ op = "new" => called = << >>
          /\ op # "new" => called # << >> /\ called[Len(called)] = op
    /\ (mainpc = "exited" /\ exitCode = 0) => called = MainOrder
    /\ (mainpc = "exited" /\ called # << >>) => uninits = 1 /\ aptCount = 0
    /\ mainpc # "exited" => uninits = 0

\* C9: an accessor call makes exactly one name resolution, then at most
\* one dispatch call; a refused resolution means no dispatch call, a
\* dispatch status other than S_OK means no conversion, both return an
\* error at once; a value is returned only if both returned S_OK.
C9_OneResolutionOneDispatchNoRetry ==
    op \in AccessorOps =>
        /\ CountCalls(res.log, "GetIDsOfNames") = 1
        /\ res.log[1].api = "GetIDsOfNames"
        /\ CountCalls(res.log, "Invoke") <= 1
        /\ reply.hrNames # S_OK =>
              res.status = "err" /\ res.err = "GetIDsOfNames" /\ Len(res.log) = 1
        /\ reply.hrNames = S_OK =>
              Len(res.log) >= 2 /\ res.log[2].api = "Invoke"
        /\ (reply.hrNames = S_OK /\ reply.hrInvoke # S_OK) =>
              res.status = "err" /\ res.err = "Invoke" /\ Len(res.log) = 2
        /\ res.status = "ok" => reply.hrNames = S_OK /\ reply.hrInvoke = S_OK

\* a dispatch call refused: the accessor returned the error after it
C9_Witness ==
    /\ op = "rand_uniform"
    /\ reply.hrNames = S_OK
    /\ reply.hrInvoke = E_FAILURE
    /\ res.status = "err"
    /\ CountCalls(res.log, "Invoke") = 1

\* the member name, the dispatch kind and whether an argument is passed
MemberOf(o) ==
    CASE o = "rand_int32" -> << "RandInt32", DISPATCH_PROPERTYGET, FALSE >>
      [] o = "rand_uniform" -> << "RandUniform", DISPATCH_PROPERTYGET, FALSE >>
      [] o = "rand_normal" -> << "RandNormal", DISPATCH_PROPERTYGET, FALSE >>
      [] o = "rand_bytes" -> << "RandBytes", DISPATCH_PROPERTYGET, TRUE >>
      [] o = "device_id" -> << "DeviceId", DISPATCH_PROPERTYGET, FALSE >>
      [] o = "runtime_info" -> << "RuntimeInfo", DISPATCH_PROPERTYGET, FALSE >>
      [] o = "diagnostics" -> << "Diagnostics", DISPATCH_METHOD, TRUE >>
      [] o = "clear" -> << "Clear", DISPATCH_METHOD, FALSE >>
      [] o = "reset" -> << "Reset", DISPATCH_METHOD, FALSE >>

\* C10: every accessor resolves and dispatches its own member name with
\* its own dispatch kind; RandBytes and Diagnostics pass exactly one
\* argument, tagged 32-bit integer, holding the caller's integer, the
\* others pass none; Clear and Reset discard the returned value.
C10_FixedNameKindAndArguments ==
    op \in AccessorOps =>
        /\ res.log[1].name = MemberOf(op)[1]
        /\ \A i \in 1..Len(res.log) :
              res.log[i].api = "Invoke" =>
                /\ res.log[i].name = MemberOf(op)[1]
                /\ res.log[i].kind = MemberOf(op)[2]
                /\ IF MemberOf(op)[3]
                   THEN /\ Len(res.log[i].args) = 1
                        /\ res.log[i].args[1].vt = VT_I4
                        /\ res.log[i].args[1].lo = arg
                   ELSE res.log[i].args = << >>
        /\ (op \in { "clear", "reset" } /\ res.status = "ok") => res.val = 0

\* Diagnostics dispatched with the caller's code
C10_Witness ==
    /\ op = "diagnostics"
    /\ arg = 21
    /\ CountCalls(res.log, "Invoke") = 1
    /\ res.status = "ok"

=============================================================================
